---- MODULE Spec2Model ----
(***************************************************************************)
(* Model of src/src/App.js (ScheduleProcessor): the file-selection handler *)
(* with its asynchronous FileReader completion, the two date fields, the   *)
(* error banner and generateICalFile, which expands the weekly schedule    *)
(* over a date range into calendar events and hands the document to        *)
(* saveAs.                                                                 *)
(*                                                                         *)
(* JavaScript strings that the code inspects character by character (file  *)
(* names, type words, time and date strings) are sequences of one-letter   *)
(* strings.  JavaScript values are tagged records, so that values of       *)
(* different JavaScript types are never equal.                             *)
(***************************************************************************)
EXTENDS Integers, Sequences, FiniteSets, Bags, TLC

\* ------------------------------------------------------------------------
\* Bounds of the model

\* Longest item array of one weekday in the enumerated schedules.
MaxItems == 2

\* Most reads of one file that can be outstanding at a time.
MaxPending == 1

\* ------------------------------------------------------------------------
\* JavaScript values

Undefined == [t |-> "undefined"]

Null == [t |-> "null"]

Str(s) == [t |-> "string", s |-> s]

Num(n) == [t |-> "number", n |-> n]

Arr(a) == [t |-> "array", a |-> a]

\* JavaScript truthiness of the values the model uses.
Truthy(v) ==
  CASE v.t = "undefined" -> FALSE
    [] v.t = "null" -> FALSE
    [] v.t = "string" -> v.s # <<>>
    [] v.t = "number" -> v.n # 0
    [] OTHER -> TRUE

\* a || b
OrElse(a, b) == IF Truthy(a) THEN a ELSE b

\* ------------------------------------------------------------------------
\* Strings

Digits == <<"0", "1", "2", "3", "4", "5", "6", "7", "8", "9">>

IsDigit(c) == \E i \in 1..Len(Digits) : Digits[i] = c

DigitVal(c) == (CHOOSE i \in 1..Len(Digits) : Digits[i] = c) - 1

Lower ==
  <<"a", "b", "c", "d", "e", "f", "g", "h", "i", "j", "k", "l", "m", "n",
    "o", "p", "q", "r", "s", "t", "u", "v", "w", "x", "y", "z">>

Upper ==
  <<"A", "B", "C", "D", "E", "F", "G", "H", "I", "J", "K", "L", "M", "N",
    "O", "P", "Q", "R", "S", "T", "U", "V", "W", "X", "Y", "Z">>

\* String.prototype.toUpperCase on one character.
ToUpperChar(c) ==
  IF \E i \in 1..Len(Lower) : Lower[i] = c
  THEN Upper[CHOOSE i \in 1..Len(Lower) : Lower[i] = c]
  ELSE c

\* String.prototype.toLowerCase on one character.
ToLowerChar(c) ==
  IF \E i \in 1..Len(Upper) : Upper[i] = c
  THEN Lower[CHOOSE i \in 1..Len(Upper) : Upper[i] = c]
  ELSE c

\* s.toLowerCase()
ToLowerCase(s) == [i \in 1..Len(s) |-> ToLowerChar(s[i])]

\* s.endsWith(suffix)
EndsWith(s, suffix) ==
  /\ Len(s) >= Len(suffix)
  /\ SubSeq(s, Len(s) - Len(suffix) + 1, Len(s)) = suffix

\* Index of the first occurrence of character c in s at or after position
\* from, or Len(s) + 1 when there is none.
RECURSIVE IndexOf(_, _, _)
IndexOf(s, c, from) ==
  IF from > Len(s) THEN Len(s) + 1
  ELSE IF s[from] = c THEN from
  ELSE IndexOf(s, c, from + 1)

\* s.split(':')[0]: the text before the first colon.
SplitPart0(s) == SubSeq(s, 1, IndexOf(s, ":", 1) - 1)

\* s.split(':')[1]: the text between the first and the second colon, or
\* undefined when s has no colon.
SplitPart1(s) ==
  LET c1 == IndexOf(s, ":", 1)
  IN  IF c1 > Len(s) THEN Undefined
      ELSE Str(SubSeq(s, c1 + 1, IndexOf(s, ":", c1 + 1) - 1))

NaN == [t |-> "NaN"]

\* The value of a run of digits.
RECURSIVE DigitsValue(_, _, _)
DigitsValue(s, i, acc) ==
  IF i > Len(s) \/ ~IsDigit(s[i]) THEN acc
  ELSE DigitsValue(s, i + 1, acc * 10 + DigitVal(s[i]))

\* parseInt(v, 10) of a string or of undefined: the leading digits, NaN when
\* there are none.
ParseInt(v) ==
  IF v.t # "string" THEN NaN
  ELSE IF v.s = <<>> \/ ~IsDigit(v.s[1]) THEN NaN
  ELSE Num(DigitsValue(v.s, 1, 0))

\* ------------------------------------------------------------------------
\* Dates.  A Date is a count of minutes of local wall-clock time since the
\* start of day 0 of the proleptic Gregorian calendar (day 1 is 0001-01-01,
\* a Monday), or the Invalid Date.

InvalidDate == [valid |-> FALSE, time |-> 0]

DateAt(minutes) == [valid |-> TRUE, time |-> minutes]

MinutesPerDay == 24 * 60

IsLeap(y) == (y % 4 = 0 /\ y % 100 # 0) \/ y % 400 = 0

DaysInMonth(y, m) ==
  IF m = 2 THEN (IF IsLeap(y) THEN 29 ELSE 28)
  ELSE IF m \in {4, 6, 9, 11} THEN 30
  ELSE 31

RECURSIVE DaysBeforeMonth(_, _)
DaysBeforeMonth(y, m) ==
  IF m = 1 THEN 0 ELSE DaysBeforeMonth(y, m - 1) + DaysInMonth(y, m - 1)

DaysBeforeYear(y) ==
  (y - 1) * 365 + ((y - 1) \div 4) - ((y - 1) \div 100) + ((y - 1) \div 400)

Ordinal(y, m, d) == DaysBeforeYear(y) + DaysBeforeMonth(y, m) + d

AllDigits(s) == \A i \in 1..Len(s) : IsDigit(s[i])

\* parseISO(s) of date-fns for the calendar-date form YYYY-MM-DD: local
\* midnight of that date, or the Invalid Date when the text has another
\* shape or names a month or a day of the month that does not exist.
ParseISO(s) ==
  IF /\ Len(s) = 10
     /\ s[5] = "-"
     /\ s[8] = "-"
     /\ AllDigits(SubSeq(s, 1, 4))
     /\ AllDigits(SubSeq(s, 6, 7))
     /\ AllDigits(SubSeq(s, 9, 10))
  THEN LET y == DigitsValue(SubSeq(s, 1, 4), 1, 0)
           m == DigitsValue(SubSeq(s, 6, 7), 1, 0)
           d == DigitsValue(SubSeq(s, 9, 10), 1, 0)
       IN  IF m \in 1..12 /\ d >= 1 /\ d <= DaysInMonth(y, m)
           THEN DateAt(Ordinal(y, m, d) * MinutesPerDay)
           ELSE InvalidDate
  ELSE InvalidDate

DayNames ==
  << <<"S", "u", "n", "d", "a", "y">>,
     <<"M", "o", "n", "d", "a", "y">>,
     <<"T", "u", "e", "s", "d", "a", "y">>,
     <<"W", "e", "d", "n", "e", "s", "d", "a", "y">>,
     <<"T", "h", "u", "r", "s", "d", "a", "y">>,
     <<"F", "r", "i", "d", "a", "y">>,
     <<"S", "a", "t", "u", "r", "d", "a", "y">> >>

\* format(day, 'EEEE'): the full English weekday name of a valid date.
FormatEEEE(day) == DayNames[((day.time \div MinutesPerDay) % 7) + 1]

\* d = new Date(day); d.setHours(h, m): the same calendar date at h:m, the
\* Invalid Date when an argument is NaN.  Hours and minutes beyond their
\* range carry over, as in JavaScript.
SetHours(day, h, m) ==
  IF ~day.valid \/ h.t # "number" \/ m.t # "number" THEN InvalidDate
  ELSE DateAt((day.time \div MinutesPerDay) * MinutesPerDay + h.n * 60 + m.n)

\* ------------------------------------------------------------------------
\* Schedule items and calendar events

Teaching == <<"t", "e", "a", "c", "h", "i", "n", "g">>

Student == <<"s", "t", "u", "d", "e", "n", "t">>

Campus == <<"c", "a", "m", "p", "u", "s">>

\* " Hours", the suffix of a generated summary.
HoursSuffix == <<" ", "H", "o", "u", "r", "s">>

\* An item object of a weekday's array; a field that the JSON leaves out is
\* undefined.
Item(type, startTime, endTime, className, description, classLocation) ==
  [t |-> "object", type |-> type, startTime |-> startTime, endTime |-> endTime,
   className |-> className, description |-> description,
   classLocation |-> classLocation]

\* obj[key] of the schedule object: undefined for a key it does not have and
\* for a schedule that is not an object.
Lookup(obj, key) ==
  IF obj.t = "object" /\ key \in DOMAIN obj.props THEN obj.props[key]
  ELSE Undefined

\* Mutant of GeneratedSummary: the first letter is not capitalized.
GeneratedSummaryLower(type) == type \o HoursSuffix

\* item.type.charAt(0).toUpperCase() + item.type.slice(1) + ' Hours'
GeneratedSummary(type) ==
  <<ToUpperChar(Head(type))>> \o Tail(type) \o HoursSuffix

\* The time of day of a time string put on the date of day:
\* d.setHours(parseInt(t.split(':')[0], 10), parseInt(t.split(':')[1], 10))
TimeOn(day, timeStr) ==
  SetHours(day, ParseInt(Str(SplitPart0(timeStr))),
           ParseInt(SplitPart1(timeStr)))

\* The argument of cal.createEvent for a teaching or student item.
BusyEvent(item, eventStart, eventEnd) ==
  [start |-> eventStart,
   end |-> eventEnd,
   summary |-> OrElse(item.className, Str(GeneratedSummary(item.type.s))),
   description |-> OrElse(item.description, Str(<<>>)),
   location |-> OrElse(item.classLocation, Str(<<>>)),
   busyStatus |-> "BUSY",
   status |-> "",
   transparency |-> ""]

\* The argument of cal.createEvent for a campus item.  It names no location.
FreeEvent(item, eventStart, eventEnd) ==
  [start |-> eventStart,
   end |-> eventEnd,
   summary |-> Str(
     <<"O", "n", " ", "C", "a", "m", "p", "u", "s", " ", "(", "A", "v",
       "a", "i", "l", "a", "b", "l", "e", " ", "f", "o", "r", " ", "M",
       "e", "e", "t", "i", "n", "g", "s", ")">>),
   description |-> Str(
     <<"I", "n", "s", "t", "r", "u", "c", "t", "o", "r", " ", "i", "s",
       " ", "o", "n", " ", "c", "a", "m", "p", "u", "s", " ", "a", "n",
       "d", " ", "a", "v", "a", "i", "l", "a", "b", "l", "e", " ", "f",
       "o", "r", " ", "m", "e", "e", "t", "i", "n", "g", "s", " ", "d",
       "u", "r", "i", "n", "g", " ", "t", "h", "i", "s", " ", "t", "i",
       "m", "e", ".">>),
   location |-> Undefined,
   busyStatus |-> "FREE",
   status |-> "CONFIRMED",
   transparency |-> "TRANSPARENT"]

\* cal.createEvent(data) of ical-generator: it refuses a start or an end
\* that is no valid date by throwing, and otherwise appends the event.
CreateEvent(events, data) ==
  IF data.start.valid /\ data.end.valid
  THEN [threw |-> FALSE, events |-> Append(events, data)]
  ELSE [threw |-> TRUE, events |-> events]

\* The body of daySchedule.forEach for one item on one day: the events so
\* far with the item's event appended, or an exception.
ProcessItem(events, item, day) ==
  IF ~(Truthy(item) /\ Truthy(item.type) /\ Truthy(item.startTime)
       /\ Truthy(item.endTime))
  THEN [threw |-> FALSE, events |-> events]
  ELSE IF item.startTime.t # "string" \/ item.endTime.t # "string"
  THEN \* .split is not a function of a number
       [threw |-> TRUE, events |-> events]
  ELSE LET eventStart == TimeOn(day, item.startTime.s)
           eventEnd == TimeOn(day, item.endTime.s)
       IN  IF item.type = Str(Teaching) \/ item.type = Str(Student)
           THEN CreateEvent(events, BusyEvent(item, eventStart, eventEnd))
           ELSE IF item.type = Str(Campus)
           THEN CreateEvent(events, FreeEvent(item, eventStart, eventEnd))
           ELSE [threw |-> FALSE, events |-> events]

\* daySchedule.forEach over the items from index i on.  visited counts the
\* items whose processing ended without an exception.
RECURSIVE ProcessItems(_, _, _, _)
ProcessItems(acc, items, i, day) ==
  IF i > Len(items) THEN acc
  ELSE LET r == ProcessItem(acc.events, items[i], day)
       IN  IF r.threw
           THEN [threw |-> TRUE, events |-> r.events, visited |-> acc.visited]
           ELSE ProcessItems([threw |-> FALSE, events |-> r.events,
                              visited |-> acc.visited + 1], items, i + 1, day)

\* The callback of eachDayOfInterval(...).forEach for one day.
ProcessDay(acc, schedule, day) ==
  LET dayOfWeek == ToLowerCase(FormatEEEE(day))
      daySchedule == Lookup(schedule, dayOfWeek)
  IN  IF daySchedule.t = "array"
      THEN ProcessItems(acc, daySchedule.a, 1, day)
      ELSE acc

RECURSIVE ProcessDays(_, _, _, _)
ProcessDays(acc, schedule, days, k) ==
  IF k > Len(days) \/ acc.threw THEN acc
  ELSE ProcessDays(ProcessDay(acc, schedule, days[k]), schedule, days, k + 1)

\* Mutant of EachDayOfInterval: the end date is left out.
EachDayOfIntervalExclusive(start, end, lib) ==
  LET first == start.time \div MinutesPerDay
      last == end.time \div MinutesPerDay
  IN  IF ~start.valid \/ ~end.valid
      THEN [threw |-> lib = "v2", days |-> <<>>]
      ELSE IF first <= last
      THEN [threw |-> FALSE,
            days |-> [i \in 1..(last - first) |->
                        DateAt((first + i - 1) * MinutesPerDay)]]
      ELSE [threw |-> lib = "v2", days |-> <<>>]

\* eachDayOfInterval({start, end}) of date-fns.  Major version 2 throws a
\* RangeError for an Invalid Date and for a start after the end.  From
\* version 3 on an Invalid Date gives no days and a start after the end gives
\* the days from start down to end.
EachDayOfInterval(start, end, lib) ==
  LET first == start.time \div MinutesPerDay
      last == end.time \div MinutesPerDay
  IN  IF ~start.valid \/ ~end.valid
      THEN [threw |-> lib = "v2", days |-> <<>>]
      ELSE IF first <= last
      THEN [threw |-> FALSE,
            days |-> [i \in 1..(last - first + 1) |->
                        DateAt((first + i - 1) * MinutesPerDay)]]
      ELSE [threw |-> lib = "v2",
            days |-> IF lib = "v2" THEN <<>>
                     ELSE [i \in 1..(first - last + 1) |->
                             DateAt((first - i + 1) * MinutesPerDay)]]

\* The try block of generateICalFile up to cal.toString(): the events of the
\* calendar, or an exception.
Expand(data, startDate, endDate, lib) ==
  LET interval == EachDayOfInterval(ParseISO(startDate), ParseISO(endDate), lib)
      empty == [threw |-> FALSE, events |-> <<>>, visited |-> 0]
  IN  IF interval.threw
      THEN [threw |-> TRUE, events |-> <<>>, visited |-> 0]
      ELSE ProcessDays(empty, data.schedule, interval.days, 1)

\* ------------------------------------------------------------------------
\* The inputs the model enumerates

\* Values of the two date fields: empty, a date that does not exist, a
\* Monday, and the Sunday that ends the same week (the week holds a leap day
\* and the turn of a month).
NoDate == <<>>

BadDate == <<"2", "0", "2", "4", "-", "0", "2", "-", "3", "0">>

Monday26 == <<"2", "0", "2", "4", "-", "0", "2", "-", "2", "6">>

Sunday03 == <<"2", "0", "2", "4", "-", "0", "3", "-", "0", "3">>

DateStrs == {NoDate, BadDate, Monday26, Sunday03}

T0900 == Str(<<"0", "9", ":", "0", "0">>)

T1030 == Str(<<"1", "0", ":", "3", "0">>)

T1100 == Str(<<"1", "1", ":", "0", "0">>)

CS101 == Str(<<"C", "S", "1", "0", "1">>)

Office == <<"o", "f", "f", "i", "c", "e">>

\* The items the enumerated schedules are made of.
ItemTeachingNamed ==
  Item(Str(Teaching), T0900, T1030, CS101, Undefined, Str(<<"B", "1", "2">>))

ItemTeachingPlain ==
  Item(Str(Teaching), T1030, T1100, Undefined, Undefined, Undefined)

\* Its end time precedes its start time.
ItemStudentPlain ==
  Item(Str(Student), T1100, T1030, Undefined,
       Str(<<"d", "r", "o", "p", " ", "i", "n">>), Undefined)

ItemCampusNamed ==
  Item(Str(Campus), T0900, T1100, CS101, Undefined, Undefined)

ItemUnknownType ==
  Item(Str(Office), T0900, T1030, CS101, Undefined, Undefined)

ItemNoEndTime ==
  Item(Str(Teaching), T0900, Undefined, CS101, Undefined, Undefined)

\* "startTime": 900, a number where the code expects a string
ItemUnknownNumericTime ==
  Item(Str(Office), Num(900), T1030, Undefined, Undefined, Undefined)

\* "startTime": "abc"
ItemTeachingBadTime ==
  Item(Str(Teaching), Str(<<"a", "b", "c">>), T1030, CS101, Undefined,
       Undefined)

Items ==
  {ItemTeachingNamed, ItemTeachingPlain, ItemStudentPlain, ItemCampusNamed,
   ItemUnknownType, ItemNoEndTime, ItemUnknownNumericTime,
   ItemTeachingBadTime, Null}

KeyMonday == <<"m", "o", "n", "d", "a", "y">>

KeyFriday == <<"f", "r", "i", "d", "a", "y">>

KeySunday == <<"s", "u", "n", "d", "a", "y">>

\* Sequences over S of length at most n.
SeqsUpTo(S, n) == UNION {[1..k -> S] : k \in 0..n}

\* A schedule object with the given own properties.
Obj(props) == [t |-> "object", props |-> props]

\* The parsed content of a schedule file.
Parsed(schedule) == [t |-> "object", schedule |-> schedule]

\* The schedules of the expansion checks: Monday holds any array of at most
\* MaxItems items; Sunday is absent, is not an array, or holds one item.  One
\* more schedule is not an object at all.
Schedules ==
  { Obj([k \in ({KeyMonday} \cup (IF sun = Undefined THEN {} ELSE {KeySunday}))
           |-> IF k = KeyMonday THEN Arr(items) ELSE sun]) :
      items \in SeqsUpTo(Items, MaxItems),
      sun \in {Undefined, Num(5), Arr(<<ItemStudentPlain>>)} }
  \cup {Num(5)}

\* A selected file: its name and what JSON.parse makes of its text.
File(name, json, value) == [name |-> name, json |-> json, value |-> value]

FileA ==
  File(<<"a", ".", "c", "c", "c", "s", "c", "h", "e", "d">>, TRUE,
       Parsed(Obj((KeyMonday :> Arr(<<ItemTeachingNamed, ItemCampusNamed>>))
                  @@ (KeyFriday :> Arr(<<ItemStudentPlain>>)))))

\* A JSON object without a schedule property.
FileNoSchedule ==
  File(<<"n", ".", "c", "c", "c", "s", "c", "h", "e", "d">>, TRUE,
       [t |-> "object", schedule |-> Undefined])

\* Text that is not JSON.
FileGarbage ==
  File(<<"g", ".", "c", "c", "c", "s", "c", "h", "e", "d">>, FALSE, Undefined)

\* A schedule under a name without the extension.
FileTxt ==
  File(<<"a", ".", "c", "c", "c", "s", "c", "h", "e", "d", ".", "t", "x", "t">>,
       TRUE, FileA.value)

Files == {FileA, FileNoSchedule, FileGarbage, FileTxt}

\* ------------------------------------------------------------------------
\* State

VARIABLES
  file,          \* useState: the selected file, or null
  startDate,     \* useState: the text of the start date field
  endDate,       \* useState: the text of the end date field
  scheduleData,  \* useState: the parsed file content, or null
  error,         \* useState: the message of the error banner, '' for none
  pending,       \* the bag of files whose readAsText has not completed
  dateFns,       \* the major version of date-fns the build resolved
  op,            \* the handler that ran last
  sink,          \* the documents the last handler handed to saveAs
  visited        \* the items the last handler's expansion got through

vars ==
  <<file, startDate, endDate, scheduleData, error, pending, dateFns, op,
    sink, visited>>

ExtensionError == "Please select a valid .cccsched file."

ParseError ==
  "Error parsing the file. Please make sure it's a valid .cccsched file."

MissingInputsError == "Please upload a file and set start and end dates."

GenerateError ==
  "Error generating iCal file. Please check your schedule data and try again."

ScheduleExtension == <<".", "c", "c", "c", "s", "c", "h", "e", "d">>

\* A handler other than generateICalFile hands nothing to saveAs.
NoOutput == sink' = <<>> /\ visited' = 0

Init ==
  /\ file = Null
  /\ startDate = NoDate
  /\ endDate = NoDate
  /\ scheduleData = Null
  /\ error = ""
  /\ pending = EmptyBag
  /\ dateFns \in {"v2", "v3"}
  /\ op = "init"
  /\ sink = <<>>
  /\ visited = 0

\* Mutant of HandleFileChange: the rejecting branch keeps the held schedule.
HandleFileChangeKeeping(selectedFile) ==
  /\ IF /\ selectedFile # Undefined
        /\ EndsWith(selectedFile.name, ScheduleExtension)
     THEN /\ CopiesIn(selectedFile, pending) < MaxPending
          /\ file' = selectedFile
          /\ pending' = pending (+) SetToBag({selectedFile})
          /\ op' = "selectAccepted"
          /\ UNCHANGED <<scheduleData, error>>
     ELSE /\ error' = ExtensionError
          /\ file' = Null
          /\ op' = "selectRejected"
          /\ UNCHANGED <<scheduleData, pending>>
  /\ NoOutput
  /\ UNCHANGED <<startDate, endDate, dateFns>>

\* handleFileChange with event.target.files[0] = selectedFile (undefined when
\* the selection is empty).
HandleFileChange(selectedFile) ==
  /\ IF /\ selectedFile # Undefined
        /\ EndsWith(selectedFile.name, ScheduleExtension)
     THEN /\ CopiesIn(selectedFile, pending) < MaxPending
          /\ file' = selectedFile
          /\ pending' = pending (+) SetToBag({selectedFile})
          /\ op' = "selectAccepted"
          /\ UNCHANGED <<scheduleData, error>>
     ELSE /\ error' = ExtensionError
          /\ file' = Null
          /\ scheduleData' = Null
          /\ op' = "selectRejected"
          /\ UNCHANGED pending
  /\ NoOutput
  /\ UNCHANGED <<startDate, endDate, dateFns>>

\* JSON.parse(text) followed by the schedule check: the parsed data, or an
\* exception for text that is not JSON, for JSON null (a property of null is
\* read) and for a value without a truthy schedule property.
ParseFile(f) ==
  IF ~f.json THEN [threw |-> TRUE, data |-> Null]
  ELSE IF f.value.t # "object" THEN [threw |-> TRUE, data |-> Null]
  ELSE IF ~Truthy(f.value.schedule) THEN [threw |-> TRUE, data |-> Null]
  ELSE [threw |-> FALSE, data |-> f.value]

\* reader.onload of the read that was started for file f.
ReaderOnload(f) ==
  /\ BagIn(f, pending)
  /\ pending' = pending (-) SetToBag({f})
  /\ LET r == ParseFile(f)
     IN  IF r.threw
         THEN /\ error' = ParseError
              /\ scheduleData' = Null
              /\ op' = "onloadRejected"
         ELSE /\ scheduleData' = r.data
              /\ error' = ""
              /\ op' = "onloadAccepted"
  /\ NoOutput
  /\ UNCHANGED <<file, startDate, endDate, dateFns>>

\* The read started for file f fails.  The reader has no onerror handler:
\* nothing is set.
ReaderFails(f) ==
  /\ BagIn(f, pending)
  /\ pending' = pending (-) SetToBag({f})
  /\ op' = "readFailed"
  /\ NoOutput
  /\ UNCHANGED <<file, startDate, endDate, scheduleData, error, dateFns>>

\* onChange of the start date field.
SetStartDate(value) ==
  /\ startDate' = value
  /\ op' = "setStartDate"
  /\ NoOutput
  /\ UNCHANGED <<file, endDate, scheduleData, error, pending, dateFns>>

\* onChange of the end date field.
SetEndDate(value) ==
  /\ endDate' = value
  /\ op' = "setEndDate"
  /\ NoOutput
  /\ UNCHANGED <<file, startDate, scheduleData, error, pending, dateFns>>

\* onClose of the Snackbar and of the Alert.
CloseError ==
  /\ error' = ""
  /\ op' = "closeError"
  /\ NoOutput
  /\ UNCHANGED <<file, startDate, endDate, scheduleData, pending, dateFns>>

\* Mutant of GenerateOutcome: the catch block saves what had been built.
GenerateOutcomePartial(data, start, end, lib) ==
  IF data = Null \/ start = <<>> \/ end = <<>>
  THEN [error |-> MissingInputsError, sink |-> <<>>, visited |-> 0]
  ELSE LET r == Expand(data, start, end, lib)
       IN  IF r.threw
           THEN [error |-> GenerateError, sink |-> <<r.events>>,
                 visited |-> r.visited]
           ELSE [error |-> "", sink |-> <<r.events>>, visited |-> r.visited]

\* What one call of generateICalFile does to the error field and to saveAs.
GenerateOutcome(data, start, end, lib) ==
  IF data = Null \/ start = <<>> \/ end = <<>>
  THEN [error |-> MissingInputsError, sink |-> <<>>, visited |-> 0]
  ELSE LET r == Expand(data, start, end, lib)
       IN  IF r.threw
           THEN [error |-> GenerateError, sink |-> <<>>, visited |-> r.visited]
           ELSE [error |-> "", sink |-> <<r.events>>, visited |-> r.visited]

\* The "Generate iCal File" button is not disabled.
ButtonEnabled == file # Null /\ startDate # <<>> /\ endDate # <<>>

\* Mutant of GenerateICalFile: the held schedule is discarded after a
\* delivery.
GenerateICalFileDiscarding ==
  /\ ButtonEnabled
  /\ LET out == GenerateOutcome(scheduleData, startDate, endDate, dateFns)
     IN  /\ error' = out.error
         /\ sink' = out.sink
         /\ visited' = out.visited
         /\ scheduleData' = IF out.sink = <<>> THEN scheduleData ELSE Null
  /\ op' = IF op \in {"generate", "generateAgain"} THEN "generateAgain"
           ELSE "generate"
  /\ UNCHANGED <<file, startDate, endDate, pending, dateFns>>

\* generateICalFile, the onClick of the button.
GenerateICalFile ==
  /\ ButtonEnabled
  /\ LET out == GenerateOutcome(scheduleData, startDate, endDate, dateFns)
     IN  /\ error' = out.error
         /\ sink' = out.sink
         /\ visited' = out.visited
  /\ op' = IF op \in {"generate", "generateAgain"} THEN "generateAgain"
           ELSE "generate"
  /\ UNCHANGED <<file, startDate, endDate, scheduleData, pending, dateFns>>

Next ==
  \/ \E f \in Files \cup {Undefined} : HandleFileChange(f)
  \/ \E f \in Files : ReaderOnload(f)
  \/ \E f \in Files : ReaderFails(f)
  \/ \E v \in DateStrs : SetStartDate(v)
  \/ \E v \in DateStrs : SetEndDate(v)
  \/ CloseError
  \/ GenerateICalFile

Spec == Init /\ [][Next]_vars

\* The expansion alone, from the states in which the button is enabled and
\* no read is outstanding: either a schedule of Schedules has been loaded
\* from the selected file, or the content of the selected file has been
\* rejected; both date fields hold any non-empty enumerated text.
InitExpand ==
  /\ \/ \E schedule \in Schedules :
          /\ scheduleData = Parsed(schedule)
          /\ file = File(FileA.name, TRUE, Parsed(schedule))
          /\ error = ""
          /\ op = "onloadAccepted"
     \/ /\ scheduleData = Null
        /\ file = FileNoSchedule
        /\ error = ParseError
        /\ op = "onloadRejected"
  /\ startDate \in DateStrs \ {NoDate}
  /\ endDate \in DateStrs \ {NoDate}
  /\ pending = EmptyBag
  /\ dateFns \in {"v2", "v3"}
  /\ sink = <<>>
  /\ visited = 0

NextExpand == GenerateICalFile

SpecExpand == InitExpand /\ [][NextExpand]_vars

\* ------------------------------------------------------------------------
\* What the claims speak of, stated without the operators of the expansion

\* The lowercase weekday names, indexed by day number modulo 7 (day 1 is a
\* Monday).
WeekdayKeys ==
  << <<"s", "u", "n", "d", "a", "y">>,
     <<"m", "o", "n", "d", "a", "y">>,
     <<"t", "u", "e", "s", "d", "a", "y">>,
     <<"w", "e", "d", "n", "e", "s", "d", "a", "y">>,
     <<"t", "h", "u", "r", "s", "d", "a", "y">>,
     <<"f", "r", "i", "d", "a", "y">>,
     <<"s", "a", "t", "u", "r", "d", "a", "y">> >>

\* An item that is to become an event.
Materializable(item) ==
  /\ item.t = "object"
  /\ Truthy(item.type) /\ Truthy(item.startTime) /\ Truthy(item.endTime)
  /\ item.type \in {Str(Teaching), Str(Student), Str(Campus)}

\* The item sequence of the weekday of day number n; empty when the key is
\* absent or holds no array.
ItemsOn(schedule, n) ==
  LET v == Lookup(schedule, WeekdayKeys[(n % 7) + 1])
  IN  IF v.t = "array" THEN v.a ELSE <<>>

\* The materializable items of the days lo..hi, in date-then-item order.
RECURSIVE SourceItems(_, _, _)
SourceItems(schedule, lo, hi) ==
  IF lo > hi THEN <<>>
  ELSE SelectSeq(ItemsOn(schedule, lo), Materializable)
         \o SourceItems(schedule, lo + 1, hi)

\* All items, materializable or not, of the days lo..hi.
RECURSIVE AllItems(_, _, _)
AllItems(schedule, lo, hi) ==
  IF lo > hi THEN <<>>
  ELSE ItemsOn(schedule, lo) \o AllItems(schedule, lo + 1, hi)

StartDay == ParseISO(startDate).time \div MinutesPerDay

EndDay == ParseISO(endDate).time \div MinutesPerDay

BothDatesValid == ParseISO(startDate).valid /\ ParseISO(endDate).valid

\* The last handler was generateICalFile.
Generated == op \in {"generate", "generateAgain"}

\* The last handler was generateICalFile and it delivered a document.
Delivered == Generated /\ Len(sink) = 1

\* generateICalFile ran on a loaded schedule and a range [s,e] with s <= e.
GeneratedInOrder ==
  Generated /\ scheduleData # Null /\ BothDatesValid /\ StartDay <= EndDay


\* ------------------------------------------------------------------------
\* C1: for a loaded schedule and a range [s,e] with s <= e, a successful
\* generateICalFile emits exactly as many events as there are materializable
\* items in schedule[weekday of d], summed over every date d of s..e, both
\* ends and weekends included; absent and non-array days count zero.
C1_EventCount ==
  (GeneratedInOrder /\ Delivered) =>
    Len(sink[1]) = Len(SourceItems(scheduleData.schedule, StartDay, EndDay))

\* A delivered document of a Monday-to-Sunday range with events of both the
\* Monday and the Sunday.
C1_Witness ==
  /\ GeneratedInOrder /\ Delivered
  /\ StartDay < EndDay
  /\ Len(sink[1]) = 3
  /\ Len(ItemsOn(scheduleData.schedule, EndDay)) = 1

\* C2: when the end date precedes the start date (both well-formed),
\* generateICalFile sets no error and delivers a document of zero events.
C2_ReversedRangeEmptySuccess ==
  (Generated /\ scheduleData # Null /\ BothDatesValid /\ EndDay < StartDay) =>
    (error = "" /\ sink = << <<>> >>)

\* C3: items that are not materializable produce no event and never fail the
\* export, whatever their other fields hold: a run over s <= e in which no
\* item of the range is materializable delivers an empty document and sets
\* no error.
C3_SkippedItemsNeverFail ==
  (GeneratedInOrder
   /\ SourceItems(scheduleData.schedule, StartDay, EndDay) = <<>>) =>
    (error = "" /\ sink = << <<>> >>)

\* C4: a run of generateICalFile that ends in an error hands nothing to
\* saveAs; saveAs is called at most once per run, and only after every item
\* of every date of the range has been gone through; no other handler calls
\* it.
C4_AllOrNothing ==
  /\ Len(sink) <= 1
  /\ ~Generated => sink = <<>>
  /\ (Generated /\ error # "") => sink = <<>>
  /\ (GeneratedInOrder /\ Delivered) =>
       visited = Len(AllItems(scheduleData.schedule, StartDay, EndDay))

\* A run that failed after it had gone through at least one item and made at
\* least one event's worth of progress, and delivered nothing.
C4_Witness ==
  /\ GeneratedInOrder
  /\ error = GenerateError
  /\ visited > 0
  /\ sink = <<>>
  /\ SourceItems(scheduleData.schedule, StartDay, EndDay) # <<>>

\* C5: a rejected file selection leaves no schedule loaded.  A name without
\* the extension is rejected by handleFileChange itself, which starts no
\* read; text that is not JSON or has no schedule property is rejected when
\* its read completes.  Either way the schedule is null and an error is set;
\* the schedule stays null until a read completes with an accepted content,
\* and an export on a null schedule delivers nothing.
C5_RejectedLoadLeavesNothing ==
  /\ [][\A f \in Files \cup {Undefined} :
          (HandleFileChange(f)
           /\ (f = Undefined \/ ~EndsWith(f.name, ScheduleExtension)))
          => (scheduleData' = Null /\ file' = Null /\ error' = ExtensionError
              /\ pending' = pending)]_vars
  /\ [][\A f \in Files :
          (ReaderOnload(f) /\ (~f.json \/ ~Truthy(f.value.schedule)))
          => (scheduleData' = Null /\ error' = ParseError)]_vars
  /\ [][(scheduleData = Null /\ scheduleData' # Null)
          => op' = "onloadAccepted"]_vars
  /\ [][(GenerateICalFile /\ scheduleData = Null)
          => (sink' = <<>> /\ error' = MissingInputsError)]_vars

\* The selected file has no schedule property, its read has completed, both
\* dates are set, and the export that followed delivered nothing.
C5_Witness ==
  /\ Generated
  /\ file = FileNoSchedule
  /\ pending = EmptyBag
  /\ scheduleData = Null
  /\ startDate = Monday26 /\ endDate = Sunday03
  /\ error = MissingInputsError
  /\ sink = <<>>

\* C6: when the start date or the end date is absent or unparseable,
\* generateICalFile fails with the missing-inputs error (not the generation
\* error) and delivers no document.
C6_BadDateIsMissingDateRange ==
  (Generated /\ (startDate = NoDate \/ endDate = NoDate \/ ~BothDatesValid)) =>
    (error = MissingInputsError /\ sink = <<>>)

\* The calendar date (day number) an event starts on.
EventDay(ev) == ev.start.time \div MinutesPerDay

TeachingHours ==
  <<"T", "e", "a", "c", "h", "i", "n", "g", " ", "H", "o", "u", "r", "s">>

StudentHours ==
  <<"S", "t", "u", "d", "e", "n", "t", " ", "H", "o", "u", "r", "s">>

CampusSummary ==
  <<"O", "n", " ", "C", "a", "m", "p", "u", "s", " ", "(", "A", "v",
    "a", "i", "l", "a", "b", "l", "e", " ", "f", "o", "r", " ", "M",
    "e", "e", "t", "i", "n", "g", "s", ")">>

\* The classification of one event by the type of the item it comes from.
ClassifiedAs(ev, item) ==
  IF item.type = Str(Campus)
  THEN /\ ev.busyStatus = "FREE"
       /\ ev.status = "CONFIRMED"
       /\ ev.transparency = "TRANSPARENT"
       /\ ev.summary = Str(CampusSummary)
  ELSE /\ ev.busyStatus = "BUSY"
       /\ ev.summary =
            (IF Truthy(item.className) THEN item.className
             ELSE IF item.type = Str(Teaching) THEN Str(TeachingHours)
             ELSE Str(StudentHours))
       /\ ev.description = (IF Truthy(item.description) THEN item.description
                            ELSE Str(<<>>))
       /\ ev.location = (IF Truthy(item.classLocation) THEN item.classLocation
                         ELSE Str(<<>>))

\* C7: every emitted event is classified by the type of its item: teaching
\* and student items give BUSY events whose summary is the className when
\* that is truthy and else "Teaching Hours" or "Student Hours", with
\* description and location defaulting to empty; campus items give FREE,
\* CONFIRMED, TRANSPARENT events with the fixed summary, whatever their
\* className.
C7_Classification ==
  /\ (GeneratedInOrder /\ Delivered) =>
       LET src == SourceItems(scheduleData.schedule, StartDay, EndDay)
       IN  /\ Len(sink[1]) = Len(src)
           /\ \A i \in 1..Len(src) : ClassifiedAs(sink[1][i], src[i])
  /\ Delivered =>
       \A i \in 1..Len(sink[1]) :
         LET src == SourceItems(scheduleData.schedule, EventDay(sink[1][i]),
                                EventDay(sink[1][i]))
         IN  \E k \in 1..Len(src) : ClassifiedAs(sink[1][i], src[k])

\* A delivered document with a BUSY event named by its className, a FREE
\* event of a campus item that has a className, and a BUSY event with the
\* generated summary.
C7_Witness ==
  /\ GeneratedInOrder /\ Delivered
  /\ Len(sink[1]) = 3
  /\ sink[1][1].busyStatus = "BUSY" /\ sink[1][1].summary = CS101
  /\ sink[1][2].busyStatus = "FREE" /\ sink[1][2].summary = Str(CampusSummary)
  /\ ItemsOn(scheduleData.schedule, StartDay)[2].className = CS101
  /\ sink[1][3].busyStatus = "BUSY" /\ sink[1][3].summary = Str(StudentHours)

\* C8: events stand in the document in enumeration order: of two events the
\* one on the earlier date comes first, the events of one date follow the
\* order of the items of its weekday, none is merged or dropped, and every
\* event lies on a date whose weekday has entries.
C8_EnumerationOrder ==
  Delivered =>
    LET evs == sink[1]
    IN  /\ \A i, j \in 1..Len(evs) :
             i < j => EventDay(evs[i]) <= EventDay(evs[j])
        /\ \A i \in 1..Len(evs) :
             ItemsOn(scheduleData.schedule, EventDay(evs[i])) # <<>>
        /\ \A d \in {EventDay(evs[i]) : i \in 1..Len(evs)} :
             LET onDay(ev) == EventDay(ev) = d
                 got == SelectSeq(evs, onDay)
                 src == SourceItems(scheduleData.schedule, d, d)
             IN  /\ Len(got) = Len(src)
                 /\ \A i \in 1..Len(src) :
                      /\ got[i].start = TimeOn(DateAt(d * MinutesPerDay),
                                               src[i].startTime.s)
                      /\ ClassifiedAs(got[i], src[i])

\* C9: generateICalFile keeps no state between calls: it changes none of the
\* selected file, the two dates and the held schedule (it writes the error
\* field only), and a second call right after the first yields the same
\* error and hands saveAs the same events.
C9_Repeatable ==
  /\ [][GenerateICalFile =>
          UNCHANGED <<file, startDate, endDate, scheduleData, pending>>]_vars
  /\ [][op' = "generateAgain" =>
          (error' = error /\ sink' = sink /\ visited' = visited)]_vars

\* A second export in a row that delivered a document with events.
C9_Witness ==
  /\ op = "generateAgain"
  /\ Len(sink) = 1
  /\ Len(sink[1]) > 0
  /\ error = ""

\* C10: under any interleaving of selections and read completions the held
\* schedule is null or the parsed content of the file selected last; a read
\* started for an earlier selection never overwrites the outcome of a later
\* one, so an export never runs on the schedule of a file that is not the
\* selected one.  Stated for the exports that deliver a document while no
\* read is outstanding.
C10_ScheduleIsOfSelectedFile ==
  (Delivered /\ pending = EmptyBag) => scheduleData = file.value

====
